---- MODULE Spec2Model ----
(***************************************************************************)
(* Model of bin/ci/ci_run_n_monitor.py: the pipeline monitoring loop       *)
(* (monitor_pipeline), the request helpers (enable_job, retry_job,         *)
(* cancel_job, cancel_jobs), the log streamer (print_log) and the          *)
(* top-level script that turns the loop's result into a process exit code. *)
(*                                                                         *)
(* Python strings that the code inspects character by character (job       *)
(* names under re.match, statuses under the `in` operator) are sequences   *)
(* of one-character strings.  Optional[int] values use None == -1.         *)
(* The remote service is unconstrained: the status carried by each listed  *)
(* job is drawn from Status when the loop body takes that job.             *)
(***************************************************************************)
EXTENDS Integers, Sequences, FiniteSets, TLC

VARIABLES
    target_job,       \* args.target: NoTarget (None) or a pattern string
    dependencies,     \* deps: set of job names
    force_manual,     \* args.force_manual
    stress,           \* args.stress
    pc,               \* position of the script
    polls,            \* number of pipeline.jobs.list calls made so far
    njobs,            \* number of jobs the pipeline listed at the last poll
    jobs,             \* jobs of the current poll taken by the for loop so far
    to_cancel,        \* monitor_pipeline: to_cancel
    statuses,         \* monitor_pipeline: statuses
    target_statuses,  \* monitor_pipeline: target_statuses
    stress_succ,      \* monitor_pipeline: stress_succ
    stress_fail,      \* monitor_pipeline: stress_fail
    requests,         \* remote mutation requests issued since the last poll
    out,              \* lines printed by the last step
    target_job_id,    \* first component of monitor_pipeline's result
    ret,              \* second component of monitor_pipeline's result
    printed_lines,    \* print_log: printed_lines
    log_status,       \* print_log: job.status of the last fetch
    trace,            \* print_log: the decoded text of the last job.trace()
    console,          \* the log lines print_log has printed so far
    exe,              \* cancel_jobs: the ThreadPoolExecutor and its futures
    exit_code         \* process exit code, None while running

vars == <<target_job, dependencies, force_manual, stress, pc, polls, njobs,
          jobs, to_cancel, statuses, target_statuses, stress_succ,
          stress_fail, requests, out, target_job_id, ret, printed_lines,
          log_status, trace, console, exe, exit_code>>

----------------------------------------------------------------------------
(* Bounds *)

NumJobs == 2
MaxPolls == 3
MaxLogLines == 2
MaxCancel == 7

----------------------------------------------------------------------------
(* Values *)

None == -1

NoTarget == <<"<None>">>

STATUS_COLORS_KEYS ==
    {"created", "running", "success", "failed",
     "canceled", "manual", "pending", "skipped"}

COMPLETED_STATUSES == {"success", "failed"}

\* the characters of a status string
Chars(s) ==
    CASE s = "created"  -> <<"c","r","e","a","t","e","d">>
      [] s = "running"  -> <<"r","u","n","n","i","n","g">>
      [] s = "success"  -> <<"s","u","c","c","e","s","s">>
      [] s = "failed"   -> <<"f","a","i","l","e","d">>
      [] s = "canceled" -> <<"c","a","n","c","e","l","e","d">>
      [] s = "manual"   -> <<"m","a","n","u","a","l">>
      [] s = "pending"  -> <<"p","e","n","d","i","n","g">>
      [] s = "skipped"  -> <<"s","k","i","p","p","e","d">>

\* Python `a in b` on two str values: a is a substring of b
StrIn(a, b) ==
    \E i \in 0..(Len(b) - Len(a)) : SubSeq(b, i + 1, i + Len(a)) = a

StatusInTable ==
    [a \in STATUS_COLORS_KEYS, b \in STATUS_COLORS_KEYS |->
        StrIn(Chars(a), Chars(b))]

\* job.status in history[job.id]
StatusIn(a, b) == StatusInTable[a, b]

----------------------------------------------------------------------------
(* The pipeline's jobs and the command line *)

JobNames ==
    << <<"b","u","i","l","d","-","a">>,
       <<"b","u","i","l","d","-","b">>,
       <<"l","i","n","t">>,
       <<"t","r","a","c","e","s">> >>

\* job ids are positive; names repeat when the pipeline is larger
JobName(id) == JobNames[((id - 1) % Len(JobNames)) + 1]

JobIds == 1..NumJobs

\* values of --target: absent, empty, and patterns of literal characters
\* and the ".*" token
TargetArgs ==
    { NoTarget,
      <<>>,
      <<"b","u","i","l","d">>,
      <<" ","b","u","i","l","d","-","a"," ">>,
      <<".*","-","b">> }

DependencySets ==
    { {}, {JobNames[2], JobNames[3]} }

\* str.strip()
RECURSIVE LStrip(_)
LStrip(s) == IF s # <<>> /\ Head(s) = " " THEN LStrip(Tail(s)) ELSE s

RECURSIVE RStrip(_)
RStrip(s) ==
    IF s # <<>> /\ s[Len(s)] = " " THEN RStrip(SubSeq(s, 1, Len(s) - 1)) ELSE s

Strip(s) == RStrip(LStrip(s))

\* re.compile(p).match(s): the pattern matches a prefix of s
RECURSIVE ReMatch(_, _)
ReMatch(p, s) ==
    IF p = <<>> THEN TRUE
    ELSE IF Head(p) = ".*"
         THEN \E k \in 0..Len(s) : ReMatch(Tail(p), SubSeq(s, k + 1, Len(s)))
         ELSE s # <<>> /\ Head(s) = Head(p) /\ ReMatch(Tail(p), Tail(s))

\* truth value of an Optional[str]
TruthyStr(s) == s # NoTarget /\ s # <<>>

\* truth value of an Optional[int]
TruthyInt(n) == n # None /\ n # 0

MatchTable ==
    [t \in TargetArgs, i \in 1..Len(JobNames) |->
        TruthyStr(t) /\ ReMatch(Strip(t), JobNames[i])]

\* target_job and target_jobs_regex.match(job.name)
IsTarget(t, id) == MatchTable[t, ((id - 1) % Len(JobNames)) + 1]

----------------------------------------------------------------------------
(* Helpers of monitor_pipeline *)

Range(f) == { f[x] : x \in DOMAIN f }

\* a dict that keeps the first value it was given for a key
PutIfAbsent(d, k, v) ==
    [x \in (DOMAIN d) \cup {k} |-> IF x \in DOMAIN d THEN d[x] ELSE v]

\* dict assignment d[k] = v
Put(d, k, v) == [x \in (DOMAIN d) \cup {k} |-> IF x = k THEN v ELSE d[x]]

\* print_job_status
print_job_status(job) ==
    IF job.status = "canceled" THEN <<>>
    ELSE << [line |-> "status", id |-> job.id, status |-> job.status] >>

\* print_job_status_change
print_job_status_change(job) ==
    IF job.status = "canceled" THEN <<>>
    ELSE << [line |-> "new status", id |-> job.id, status |-> job.status] >>

\* a tracker that only notices jobs it has never seen
StatusChangedAbsentOnly(history, job) == job.id \notin DOMAIN history

\* (job.id not in history) or (job.status not in history[job.id])
StatusChanged(history, job) ==
    \/ job.id \notin DOMAIN history
    \/ ~StatusIn(job.status, history[job.id])

\* a target branch that enables manual jobs without --force-manual
TargetEnableUnforced(fm, job) == job.status = "manual"

\* force_manual and job.status == "manual"
TargetEnable(fm, job) == fm /\ job.status = "manual"

\* a stress branch that forgets the stress flag
StressRetryAlways(st, job) == job.status \in {"success", "failed"}

\* stress and job.status in ["success", "failed"]
StressRetry(st, job) == st /\ job.status \in {"success", "failed"}

\* the counters after the stress branch
StressSucc(n, job) == IF job.status = "success" THEN n + 1 ELSE n

StressFail(n, job) == IF job.status = "failed" THEN n + 1 ELSE n

\* a dependency test that never matches
IsDependencyNever(deps, job) == FALSE

\* job.name in dependencies
IsDependency(deps, job) == job.name \in deps

\* a dependency branch that also plays jobs that are merely created
DependencyEnableCreated(job) == job.status \in {"manual", "created"}

\* if job.status == "manual" under `if job.name in dependencies`
DependencyEnable(job) == job.status = "manual"

\* a status list without "skipped"
MarkCancelSkipped(t, job) ==
    /\ TruthyStr(t)
    /\ job.status \notin {"canceled", "success", "failed"}

\* the elif that fills to_cancel
MarkCancel(t, job) ==
    /\ TruthyStr(t)
    /\ job.status \notin {"canceled", "success", "failed", "skipped"}

\* requests and lines of enable_job, retry_job, cancel_job
PlayRequest(job) == [op |-> "play", id |-> job.id]

RetryRequest(job) == [op |-> "retry", id |-> job.id]

CancelRequest(job) == [op |-> "cancel", id |-> job.id]

EnableLine(job, target) ==
    [line |-> IF target THEN "target enabled" ELSE "dependency enabled",
     id |-> job.id, status |-> job.status]

RetryLine(job) == [line |-> "retried", id |-> job.id, status |-> job.status]

CancelLine(job) == [line |-> "cancel", id |-> job.id, status |-> job.status]

\* a loop body that cancels a job as soon as it meets it
OtherRequestsCancelInline(t, deps, job) ==
    IF IsDependency(deps, job)
    THEN (IF DependencyEnable(job) THEN <<PlayRequest(job)>> ELSE <<>>)
    ELSE (IF MarkCancel(t, job) THEN <<CancelRequest(job)>> ELSE <<>>)

\* the requests the loop body issues for a job that is not a target
OtherRequests(t, deps, job) ==
    IF IsDependency(deps, job) /\ DependencyEnable(job)
    THEN <<PlayRequest(job)>>
    ELSE <<>>

\* cancel_jobs: the requests it issues, one cancel_job per element
cancel_jobs(tc) == [i \in 1..Len(tc) |-> CancelRequest(tc[i])]

\* cancel_jobs: the lines its workers print
CancelLines(tc) == [i \in 1..Len(tc) |-> CancelLine(tc[i])]

\* a length test that got the comparison wrong
HandOffSeveral(ts) ==
    Cardinality(DOMAIN ts) > 1 /\ {"running"} \cap Range(ts) # {}

\* a failure rule that forgets canceled jobs
FailureOnlyFailed(ts) == {"failed"} \cap Range(ts) # {}

\* a success rule that forgets manual jobs
SuccessOnlySuccess(ts) == Range(ts) \subseteq {"success"}

\* a hand-off that waits for the job to complete
HandOffCompleted(ts) ==
    Cardinality(DOMAIN ts) = 1 /\ {"success"} \cap Range(ts) # {}

\* a success rule that needs something to have succeeded
SuccessNonEmpty(ts) ==
    ts # <<>> /\ Range(ts) \subseteq {"success", "manual"}

\* the three terminal rules
HandOff(ts) ==
    Cardinality(DOMAIN ts) = 1 /\ {"running"} \cap Range(ts) # {}

Failure(ts) == {"failed", "canceled"} \cap Range(ts) # {}

Success(ts) == Range(ts) \subseteq {"success", "manual"}

\* next(iter(target_statuses)) of a dict with one key
FirstKey(ts) == CHOOSE k \in DOMAIN ts : \A j \in DOMAIN ts : k = j

\* the ifs after the stress branch: what the iteration does next
TerminalRules(ts) ==
    IF HandOff(ts)
    THEN [pc |-> "returned", job_id |-> FirstKey(ts), ret |-> None]
    ELSE IF Failure(ts)
    THEN [pc |-> "returned", job_id |-> None, ret |-> 1]
    ELSE IF Success(ts)
    THEN [pc |-> "returned", job_id |-> None, ret |-> 0]
    ELSE [pc |-> "poll", job_id |-> None, ret |-> None]

\* a stress branch without its continue
EvaluationFallThrough(st, ts) == TerminalRules(ts)

\* the end of one iteration of the while loop
Evaluation(st, ts) ==
    IF st
    THEN [pc |-> "poll", job_id |-> None, ret |-> None]
    ELSE TerminalRules(ts)

\* an exit that treats a missing code as a failure
ExitStatusOr1(r) == IF r = None THEN 1 ELSE r

\* sys.exit(ret)
ExitStatus(r) == IF r = None THEN 0 ELSE r

----------------------------------------------------------------------------
(* Helpers of cancel_jobs and print_log *)

\* ThreadPoolExecutor(max_workers=6)
max_workers == 6

\* a pool that never stops starting workers
PoolUnbounded(running) == TRUE

\* a queued call starts only while fewer than max_workers are running
PoolHasRoom(running) == Cardinality(running) < max_workers

\* no executor exists outside cancel_jobs
NoExecutor == [work_queue |-> <<>>, running |-> {}, futures |-> <<>>]

\* the ids of a list of jobs
JobIdsOf(tc) == { tc[i].id : i \in 1..Len(tc) }

\* the jobs of tc whose id is in keep, in the order of tc
RECURSIVE Keep(_, _)
Keep(tc, keep) ==
    IF tc = <<>> THEN <<>>
    ELSE (IF Head(tc).id \in keep THEN <<Head(tc)>> ELSE <<>>)
            \o Keep(Tail(tc), keep)

\* the executor once every submitted cancel_job has run: the calls whose
\* id is in raised ended in an exception, which stays in their future
Finished(tc, raised) ==
    [work_queue |-> <<>>,
     running    |-> {},
     futures    |-> [id \in JobIdsOf(tc) |->
                       IF id \in raised THEN "exception" ELSE "done"]]

\* str.splitlines() on text whose only line boundary is "\n"
RECURSIVE SplitLines(_)
SplitLines(s) ==
    IF s = <<>> THEN <<>>
    ELSE LET ends == { i \in 1..Len(s) : s[i] = "\n" }
         IN  IF ends = {} THEN <<s>>
             ELSE LET k == CHOOSE i \in ends : \A j \in ends : i <= j
                  IN  <<SubSeq(s, 1, k - 1)>>
                         \o SplitLines(SubSeq(s, k + 1, Len(s)))

\* a slice that starts over at the first line
SliceAll(lines, n) == lines

\* lines[printed_lines:]
SliceFrom(lines, n) == SubSeq(lines, n + 1, Len(lines))

\* a job trace of n lines; ASCII bytes, which raw_unicode_escape decodes
\* to the same characters
RECURSIVE LogText(_)
LogText(n) ==
    IF n = 0 THEN <<>>
    ELSE LogText(n - 1) \o <<(IF n % 2 = 1 THEN "a" ELSE "b"), "\n">>

IsPrefix(a, b) == Len(a) <= Len(b) /\ SubSeq(b, 1, Len(a)) = a

\* a job's trace only grows: what a later job.trace() can return
LaterTraces(t) ==
    { LogText(n) : n \in { m \in 0..MaxLogLines : IsPrefix(t, LogText(m)) } }

----------------------------------------------------------------------------
(* Initial state: the arguments and the locals of monitor_pipeline *)

Init ==
    /\ target_job \in TargetArgs
    /\ dependencies \in DependencySets
    /\ (~TruthyStr(target_job) => dependencies = {})
    /\ force_manual \in BOOLEAN
    /\ stress \in BOOLEAN
    /\ pc = "poll"
    /\ polls = 0
    /\ njobs = 0
    /\ jobs = <<>>
    /\ to_cancel = <<>>
    /\ statuses = <<>>
    /\ target_statuses = <<>>
    /\ stress_succ = 0
    /\ stress_fail = 0
    /\ requests = <<>>
    /\ out = <<>>
    /\ target_job_id = None
    /\ ret = None
    /\ printed_lines = 0
    /\ log_status = "created"
    /\ trace = <<>>
    /\ console = <<>>
    /\ exe = NoExecutor
    /\ exit_code = None

args == <<target_job, dependencies, force_manual, stress>>

result == <<target_job_id, ret>>

streamer == <<printed_lines, log_status, trace, console>>

----------------------------------------------------------------------------
(* monitor_pipeline *)

\* while True: to_cancel = []; pipeline.jobs.list(all=True, sort="desc")
PollList(least) ==
    /\ pc = "poll"
    /\ polls < MaxPolls
    /\ polls' = polls + 1
    /\ \E n \in njobs..NumJobs : n >= least /\ njobs' = n
    /\ jobs' = <<>>
    /\ to_cancel' = <<>>
    /\ requests' = <<>>
    /\ out' = <<>>
    /\ pc' = "scan"
    /\ UNCHANGED <<args, statuses, target_statuses, stress_succ, stress_fail,
                   result, streamer, exe, exit_code>>

\* body of the for loop, target branch
ScanTarget(job) ==
    LET play    == IF TargetEnable(force_manual, job)
                   THEN <<PlayRequest(job)>> ELSE <<>>
        playln  == IF TargetEnable(force_manual, job)
                   THEN <<EnableLine(job, TRUE)>> ELSE <<>>
        retry   == IF StressRetry(stress, job)
                   THEN <<RetryRequest(job)>> ELSE <<>>
        retryln == IF StressRetry(stress, job)
                   THEN <<RetryLine(job)>> ELSE <<>>
    IN  /\ requests' = requests \o play \o retry
        /\ stress_succ' = IF StressRetry(stress, job)
                          THEN StressSucc(stress_succ, job) ELSE stress_succ
        /\ stress_fail' = IF StressRetry(stress, job)
                          THEN StressFail(stress_fail, job) ELSE stress_fail
        /\ IF StatusChanged(target_statuses, job)
           THEN /\ target_statuses' = Put(target_statuses, job.id, job.status)
                /\ out' = playln \o retryln \o print_job_status_change(job)
           ELSE /\ target_statuses' = target_statuses
                /\ out' = playln \o retryln \o print_job_status(job)
        /\ UNCHANGED <<statuses, to_cancel>>

\* body of the for loop, all other jobs
ScanOther(job) ==
    /\ IF StatusChanged(statuses, job)
       THEN statuses' = Put(statuses, job.id, job.status)
       ELSE statuses' = statuses
    /\ LET chg == IF StatusChanged(statuses, job)
                  THEN print_job_status_change(job) ELSE <<>>
       IN  /\ requests' = requests
                            \o OtherRequests(target_job, dependencies, job)
           /\ IF IsDependency(dependencies, job)
              THEN /\ out' = IF DependencyEnable(job)
                             THEN Append(chg, EnableLine(job, FALSE))
                             ELSE chg
                   /\ to_cancel' = to_cancel
              ELSE /\ out' = chg
                   /\ to_cancel' = IF MarkCancel(target_job, job)
                                   THEN Append(to_cancel, job) ELSE to_cancel
    /\ UNCHANGED <<target_statuses, stress_succ, stress_fail>>

\* for job in pipeline.jobs.list(...): one job of the list
ScanJobOf(remote) ==
    /\ pc = "scan"
    /\ Len(jobs) < njobs
    /\ \E st \in remote[njobs - Len(jobs)] :
         LET id  == njobs - Len(jobs)
             job == [id |-> id, name |-> JobName(id), status |-> st]
         IN  /\ jobs' = Append(jobs, job)
             /\ IF IsTarget(target_job, id)
                THEN ScanTarget(job)
                ELSE ScanOther(job)
    /\ UNCHANGED <<args, pc, polls, njobs, result, streamer, exe, exit_code>>

\* any status may come back for any job
AnyStatus == [id \in JobIds |-> STATUS_COLORS_KEYS]

\* the pipeline lists any number of jobs, never fewer than before
Poll == PollList(0)

ScanJob == ScanJobOf(AnyStatus)

\* if target_job: cancel_jobs(project, to_cancel), as the loop sees it: the
\* with block ends when every worker has finished; exe.map's result is
\* never read, so an exception of cancel_job stays in its future
CancelJobs ==
    /\ pc = "scan"
    /\ Len(jobs) = njobs
    /\ IF TruthyStr(target_job) /\ to_cancel # <<>>
       THEN \E raised \in SUBSET JobIdsOf(to_cancel) :
              /\ requests' = requests \o cancel_jobs(to_cancel)
              /\ exe' = Finished(to_cancel, raised)
              /\ out' = Append(CancelLines(Keep(to_cancel,
                                                JobIdsOf(to_cancel) \ raised)),
                               [line |-> "newline"])
       ELSE /\ requests' = requests
            /\ exe' = exe
            /\ out' = <<>>
    /\ pc' = "evaluate"
    /\ UNCHANGED <<args, polls, njobs, jobs, to_cancel, statuses,
                   target_statuses, stress_succ, stress_fail, result,
                   streamer, exit_code>>

\* if stress: ... continue; the three returns; pretty_wait
Evaluate ==
    /\ pc = "evaluate"
    /\ out' = IF stress
              THEN << [line |-> "tally", succ |-> stress_succ,
                       fail |-> stress_fail] >>
              ELSE << [line |-> "separator"] >>
    /\ LET e == Evaluation(stress, target_statuses)
       IN  /\ pc' = e.pc
           /\ target_job_id' = e.job_id
           /\ ret' = e.ret
    /\ exe' = NoExecutor
    /\ UNCHANGED <<args, polls, njobs, jobs, to_cancel, statuses,
                   target_statuses, stress_succ, stress_fail, requests,
                   streamer, exit_code>>

----------------------------------------------------------------------------
(* The script after monitor_pipeline returns *)

\* if target_job_id: print_log(cur_project, target_job_id)
Returned ==
    /\ pc = "returned"
    /\ pc' = IF TruthyInt(target_job_id) THEN "print_log" ELSE "sys_exit"
    /\ printed_lines' = 0
    /\ out' = <<>>
    /\ UNCHANGED <<args, polls, njobs, jobs, to_cancel, statuses,
                   target_statuses, stress_succ, stress_fail, requests,
                   result, log_status, trace, console, exe, exit_code>>

\* print_log: one fetch of the job and of its whole trace
PrintLog ==
    /\ pc = "print_log"
    /\ \E st \in STATUS_COLORS_KEYS, text \in LaterTraces(trace) :
         LET lines == SplitLines(text)
             fresh == SliceFrom(lines, printed_lines)
         IN  /\ log_status' = st
             /\ trace' = text
             /\ out' = [i \in 1..Len(fresh) |->
                          [line |-> "log", text |-> fresh[i]]]
                       \o (IF st \in COMPLETED_STATUSES
                            THEN << [line |-> "finished"] >> ELSE <<>>)
             /\ console' = console \o fresh
             /\ printed_lines' = Len(lines)
             /\ pc' = IF st \in COMPLETED_STATUSES
                      THEN "sys_exit" ELSE "print_log"
    /\ UNCHANGED <<args, polls, njobs, jobs, to_cancel, statuses,
                   target_statuses, stress_succ, stress_fail, requests,
                   result, exe, exit_code>>

\* sys.exit(ret)
SysExit ==
    /\ pc = "sys_exit"
    /\ exit_code' = ExitStatus(ret)
    /\ pc' = "exited"
    /\ out' = <<>>
    /\ UNCHANGED <<args, polls, njobs, jobs, to_cancel, statuses,
                   target_statuses, stress_succ, stress_fail, requests,
                   result, streamer, exe>>

\* the process ends wherever it was; the frames of monitor_pipeline,
\* cancel_jobs and print_log are gone with it
ProcessEnds ==
    /\ polls' = 0
    /\ njobs' = 0
    /\ jobs' = <<>>
    /\ to_cancel' = <<>>
    /\ statuses' = <<>>
    /\ target_statuses' = <<>>
    /\ stress_succ' = 0
    /\ stress_fail' = 0
    /\ requests' = <<>>
    /\ target_job_id' = None
    /\ ret' = None
    /\ printed_lines' = 0
    /\ log_status' = "created"
    /\ trace' = <<>>
    /\ console' = <<>>
    /\ exe' = NoExecutor
    /\ UNCHANGED args

\* except KeyboardInterrupt: sys.exit(1)
KeyboardInterrupt ==
    /\ pc \notin {"exited", "interrupted", "raised"}
    /\ exit_code' = 1
    /\ pc' = "interrupted"
    /\ out' = <<>>
    /\ ProcessEnds

\* pipeline.jobs.list raises: nothing catches it, the interpreter prints
\* the traceback and exits with status 1
PollRaises ==
    /\ pc = "poll"
    /\ polls < MaxPolls
    /\ exit_code' = 1
    /\ pc' = "raised"
    /\ out' = << [line |-> "traceback", call |-> "pipeline.jobs.list"] >>
    /\ ProcessEnds

\* pjob.play() or pjob.retry() raises inside the for loop: enable_job and
\* retry_job run in the loop's own thread, nothing catches the exception
ScanJobRaises ==
    /\ pc = "scan"
    /\ Len(jobs) < njobs
    /\ \E st \in STATUS_COLORS_KEYS :
         LET id  == njobs - Len(jobs)
             job == [id |-> id, name |-> JobName(id), status |-> st]
         IN  IF IsTarget(target_job, id)
             THEN TargetEnable(force_manual, job) \/ StressRetry(stress, job)
             ELSE IsDependency(dependencies, job) /\ DependencyEnable(job)
    /\ exit_code' = 1
    /\ pc' = "raised"
    /\ out' = << [line |-> "traceback", call |-> "pjob.play or pjob.retry"] >>
    /\ ProcessEnds

\* project.jobs.get or job.trace raises in print_log
PrintLogRaises ==
    /\ pc = "print_log"
    /\ exit_code' = 1
    /\ pc' = "raised"
    /\ out' = << [line |-> "traceback", call |-> "project.jobs.get"] >>
    /\ ProcessEnds

Next ==
    \/ Poll
    \/ ScanJob
    \/ CancelJobs
    \/ Evaluate
    \/ Returned
    \/ PrintLog
    \/ SysExit
    \/ KeyboardInterrupt
    \/ PollRaises
    \/ ScanJobRaises
    \/ PrintLogRaises

Spec == Init /\ [][Next]_vars

TypeOK ==
    /\ pc \in {"poll", "scan", "cancel_jobs", "evaluate", "returned",
               "print_log", "sys_exit", "exited", "interrupted", "raised"}
    /\ polls \in 0..MaxPolls

----------------------------------------------------------------------------
(* One target job seen created, then running, then success *)

Script == <<"created", "running", "success">>

\* what the p-th poll reports for the target job
ScriptStatus(p) == Script[IF p <= Len(Script) THEN p ELSE Len(Script)]

Targets(t) == { id \in JobIds : IsTarget(t, id) }

\* the target follows the script, every other job is unconstrained
ScriptedStatus ==
    [id \in JobIds |-> IF IsTarget(target_job, id)
                       THEN {ScriptStatus(polls)}
                       ELSE STATUS_COLORS_KEYS]

InitScenario ==
    /\ Init
    /\ ~stress
    /\ Cardinality(Targets(target_job)) = 1

\* the target job is listed from the first poll on
PollScenario == PollList(CHOOSE id \in JobIds : IsTarget(target_job, id))

ScanJobScenario == ScanJobOf(ScriptedStatus)

NextScenario ==
    \/ PollScenario
    \/ ScanJobScenario
    \/ CancelJobs
    \/ Evaluate
    \/ Returned
    \/ PrintLog
    \/ SysExit
    \/ KeyboardInterrupt

SpecScenario == InitScenario /\ [][NextScenario]_vars

----------------------------------------------------------------------------
(* cancel_jobs step by step, on lists longer than the pool *)

\* n jobs marked for cancellation, highest id first
PoolJobs(n) ==
    [i \in 1..n |-> [id |-> n + 1 - i, name |-> JobNames[3],
                     status |-> "running"]]

\* the loop has scanned a poll of n running jobs that are neither targets
\* nor dependencies
InitPool ==
    /\ target_job = <<"b","u","i","l","d">>
    /\ dependencies = {}
    /\ force_manual = FALSE
    /\ stress \in BOOLEAN
    /\ pc = "scan"
    /\ polls = 1
    /\ \E n \in 0..MaxCancel :
         /\ njobs = n
         /\ jobs = PoolJobs(n)
         /\ to_cancel = PoolJobs(n)
         /\ statuses = [id \in 1..n |-> "running"]
    /\ target_statuses = <<>>
    /\ stress_succ = 0
    /\ stress_fail = 0
    /\ requests = <<>>
    /\ out = <<>>
    /\ target_job_id = None
    /\ ret = None
    /\ printed_lines = 0
    /\ log_status = "created"
    /\ trace = <<>>
    /\ console = <<>>
    /\ exe = NoExecutor
    /\ exit_code = None

loop == <<polls, njobs, jobs, to_cancel, statuses, target_statuses,
          stress_succ, stress_fail>>

\* if not to_cancel: return; with ThreadPoolExecutor(...): exe.map(...)
\* queues one cancel_job call per job
PoolSubmit ==
    /\ pc = "scan"
    /\ Len(jobs) = njobs
    /\ IF TruthyStr(target_job) /\ to_cancel # <<>>
       THEN /\ exe' = [work_queue |-> to_cancel, running |-> {},
                       futures |-> <<>>]
            /\ pc' = "cancel_jobs"
       ELSE /\ exe' = exe
            /\ pc' = "evaluate"
    /\ out' = <<>>
    /\ UNCHANGED <<args, loop, requests, result, streamer, exit_code>>

\* a worker takes the next queued call: pjob.cancel() sends the request
WorkerStart ==
    /\ pc = "cancel_jobs"
    /\ exe.work_queue # <<>>
    /\ PoolHasRoom(exe.running)
    /\ LET job == Head(exe.work_queue)
       IN  /\ exe' = [exe EXCEPT !.work_queue = Tail(@),
                                 !.running = @ \cup {job.id}]
           /\ requests' = Append(requests, CancelRequest(job))
    /\ out' = <<>>
    /\ UNCHANGED <<args, pc, loop, result, streamer, exit_code>>

\* the request of a running call comes back: cancel_job prints its line, or
\* the exception is stored in the future
WorkerFinish ==
    /\ pc = "cancel_jobs"
    /\ \E id \in exe.running, raised \in BOOLEAN :
         /\ exe' = [exe EXCEPT !.running = @ \ {id},
                               !.futures = Put(@, id,
                                   IF raised THEN "exception" ELSE "done")]
         /\ out' = IF raised THEN <<>>
                   ELSE CancelLines(Keep(to_cancel, {id}))
    /\ UNCHANGED <<args, pc, loop, requests, result, streamer, exit_code>>

\* the with block ends: shutdown(wait=True) has joined every worker
PoolJoin ==
    /\ pc = "cancel_jobs"
    /\ exe.work_queue = <<>>
    /\ exe.running = {}
    /\ out' = << [line |-> "newline"] >>
    /\ pc' = "evaluate"
    /\ UNCHANGED <<args, loop, requests, result, streamer, exe, exit_code>>

NextPool ==
    \/ PoolSubmit
    \/ WorkerStart
    \/ WorkerFinish
    \/ PoolJoin
    \/ Evaluate

SpecPool == InitPool /\ [][NextPool]_vars

----------------------------------------------------------------------------
(* Vocabulary of the properties *)

Done == pc \in {"returned", "print_log", "sys_exit", "exited"}

\* the evaluation step of the latest iteration has run and nothing has
\* touched the histories since
Evaluated == polls > 0 /\ (pc = "poll" \/ Done)

\* the cancel step of the latest iteration has run
Cancelled == pc = "evaluate" \/ Evaluated

SingleRunning ==
    \E id \in DOMAIN target_statuses :
        DOMAIN target_statuses = {id} /\ target_statuses[id] = "running"

SomeFailedOrCanceled ==
    \E id \in DOMAIN target_statuses :
        target_statuses[id] \in {"failed", "canceled"}

AllSuccessOrManual ==
    \A id \in DOMAIN target_statuses :
        target_statuses[id] \in {"success", "manual"}

Count(seq, x) == Cardinality({ i \in 1..Len(seq) : seq[i] = x })

Target(job) == IsTarget(target_job, job.id)

Other(job) == ~Target(job) /\ job.name \notin dependencies

\* the step took one more job of the polled list
Scanned == Len(jobs') = Len(jobs) + 1

ScannedJob == jobs'[Len(jobs')]

----------------------------------------------------------------------------
(* Termination rules *)

\* C1: without --stress, an evaluation that finds exactly one job in the
\* target history, recorded as running, returns that job's id and no exit
\* code; the loop does not go on and no failure or success code is produced.
C1_HandOff ==
    (~stress /\ Evaluated /\ SingleRunning)
        => /\ Done
           /\ DOMAIN target_statuses = {target_job_id}
           /\ ret = None

C1_Witness ==
    /\ ~stress
    /\ pc = "returned"
    /\ SingleRunning
    /\ target_job_id \in JobIds

\* C2: without --stress, when the hand-off rule does not apply and some
\* recorded target status is failed or canceled, the loop returns no job id
\* and exit code 1, whatever else is recorded.
C2_Failure ==
    (~stress /\ Evaluated /\ ~SingleRunning /\ SomeFailedOrCanceled)
        => /\ Done
           /\ target_job_id = None
           /\ ret = 1

C2_Witness ==
    /\ ~stress
    /\ pc = "returned"
    /\ ret = 1
    /\ \E a, b \in DOMAIN target_statuses :
         target_statuses[a] = "failed" /\ target_statuses[b] = "success"

\* C3: without --stress, when neither the hand-off nor the failure rule
\* applies and every recorded target status is success or manual, the loop
\* returns no job id and exit code 0; exit code 0 is returned only when every
\* recorded target status is success or manual.
C3_Success ==
    (~stress /\ Evaluated)
        => /\ (~SingleRunning /\ ~SomeFailedOrCanceled /\ AllSuccessOrManual)
                => (Done /\ target_job_id = None /\ ret = 0)
           /\ (Done /\ ret = 0) => AllSuccessOrManual

C3_Witness ==
    /\ ~stress
    /\ pc = "returned"
    /\ ret = 0
    /\ target_job_id = None
    /\ \E a, b \in DOMAIN target_statuses :
         /\ a # b
         /\ target_statuses[a] = "success"
         /\ target_statuses[b] = "success"

\* C4: with --stress the loop never returns: no step produces a result or
\* leaves the loop, and every evaluation step goes back to polling.
C4_StressNeverReturns ==
    [][stress =>
          /\ pc' \notin {"returned", "print_log", "sys_exit", "exited"}
          /\ target_job_id' = None
          /\ ret' = None
          /\ (pc = "evaluate" /\ pc' # "interrupted") => pc' = "poll"]_vars

C4_Witness ==
    /\ stress
    /\ polls >= 2
    /\ pc = "poll"
    /\ SingleRunning

----------------------------------------------------------------------------
(* Requests of one iteration *)

Indicator(b) == IF b THEN 1 ELSE 0

\* C5: with --stress, taking a target job whose status is success adds one to
\* stress_succ, failed adds one to stress_fail, and either way one retry is
\* issued for the job; a target job in any other status changes neither
\* counter and gets no retry.  No other step of the running process changes
\* the counters or issues a retry, and without --stress the counters stay put.
C5_StressCounters ==
    [][IF Scanned
       THEN LET job  == ScannedJob
                hit  == stress /\ Target(job)
            IN  /\ stress_succ' = stress_succ
                                    + Indicator(hit /\ job.status = "success")
                /\ stress_fail' = stress_fail
                                    + Indicator(hit /\ job.status = "failed")
                /\ Count(requests', [op |-> "retry", id |-> job.id])
                     = Indicator(hit /\ job.status \in {"success", "failed"})
                /\ \A id \in JobIds \ {job.id} :
                     Count(requests', [op |-> "retry", id |-> id])
                       = Count(requests, [op |-> "retry", id |-> id])
       ELSE /\ pc' \notin {"interrupted", "raised"}
                  => stress_succ' = stress_succ
            /\ pc' \notin {"interrupted", "raised"}
                  => stress_fail' = stress_fail
            /\ \A id \in JobIds :
                 Count(requests', [op |-> "retry", id |-> id])
                   <= Count(requests, [op |-> "retry", id |-> id])]_vars

C5_Witness ==
    /\ stress
    /\ stress_succ >= 1
    /\ stress_fail >= 1
    /\ polls >= 2
    /\ \E k \in 1..Len(jobs) :
         /\ jobs[k].status = "failed"
         /\ Count(requests, [op |-> "retry", id |-> jobs[k].id]) = 1

\* C6: in every poll, a job matching the target pattern gets exactly one
\* enable request when --force-manual is set and its polled status is manual,
\* with or without --stress, and no enable request otherwise; in particular
\* none at all when --force-manual is not set.
C6_ForceManual ==
    \A k \in 1..Len(jobs) :
        Target(jobs[k]) =>
            Count(requests, [op |-> "play", id |-> jobs[k].id])
              = Indicator(force_manual /\ jobs[k].status = "manual")

\* a second poll in a row finds the target manual and enables it again
C6_Witness ==
    /\ force_manual
    /\ stress
    /\ polls >= 2
    /\ pc = "scan"
    /\ \E k \in 1..Len(jobs) :
         /\ k = Len(jobs)
         /\ Target(jobs[k])
         /\ jobs[k].status = "manual"
         /\ out = << EnableLine(jobs[k], TRUE) >> \o print_job_status(jobs[k])
         /\ Count(requests, [op |-> "play", id |-> jobs[k].id]) = 1

\* C7: with a target pattern, a job that neither matches the pattern nor is
\* named in the dependency set is in to_cancel iff its polled status is not
\* canceled, success, failed or skipped; nothing else is in to_cancel; no
\* cancel request is issued during the scan and the cancel step issues one
\* request for every job of to_cancel and none for any other job.
C7_CancelOthers ==
    TruthyStr(target_job) =>
        /\ \A k \in 1..Len(jobs) :
             Other(jobs[k]) =>
                 (Count(to_cancel, jobs[k]) = 1
                    <=> jobs[k].status \notin
                          {"canceled", "success", "failed", "skipped"})
        /\ \A i \in 1..Len(to_cancel) :
             /\ Count(jobs, to_cancel[i]) = 1
             /\ Count(to_cancel, to_cancel[i]) = 1
             /\ Other(to_cancel[i])
        /\ \A id \in JobIds :
             LET marked == \E i \in 1..Len(to_cancel) : to_cancel[i].id = id
                 issued == Count(requests, [op |-> "cancel", id |-> id])
             IN  /\ issued <= Indicator(marked)
                 /\ pc = "scan" => issued = 0
                 /\ Cancelled => issued = Indicator(marked)

C7_Witness ==
    /\ TruthyStr(target_job)
    /\ pc = "evaluate"
    /\ \E k \in 1..Len(jobs) :
         /\ Other(jobs[k])
         /\ jobs[k].status = "manual"
         /\ Count(requests, [op |-> "cancel", id |-> jobs[k].id]) = 1

----------------------------------------------------------------------------
(* Status lines *)

ChangedLine(job) ==
    [line |-> "new status", id |-> job.id, status |-> job.status]

UnchangedLine(job) ==
    [line |-> "status", id |-> job.id, status |-> job.status]

\* the history a job is tracked in
HistoryOf(job) == IF Target(job) THEN target_statuses ELSE statuses

\* the polled status equals the recorded one
SameAsRecorded(job) ==
    job.id \in DOMAIN HistoryOf(job) /\ HistoryOf(job)[job.id] = job.status

\* C8 as stated: every re-polled job with an unchanged status, target or not,
\* leaves the histories alone and prints the "unchanged" line and not the
\* "changed" one; the "changed" line is printed exactly when the job is new
\* to its history or its status differs.
C8_Original ==
    [][Scanned =>
          LET job == ScannedJob
          IN  /\ SameAsRecorded(job) =>
                    /\ statuses' = statuses
                    /\ target_statuses' = target_statuses
                    /\ Count(out', UnchangedLine(job)) = 1
                    /\ Count(out', ChangedLine(job)) = 0
              /\ Count(out', ChangedLine(job)) = 1 <=> ~SameAsRecorded(job)]_vars

\* C8 (amended): a re-polled job with an unchanged status leaves the
\* histories alone; the "unchanged" line is printed exactly for a target job
\* with an unchanged status other than canceled; the "changed" line is
\* printed exactly when the job is new to its history or its status differs,
\* and the status is not canceled.  A job new to its history or with a
\* different status is recorded with the polled status.
C8_StatusLines ==
    [][Scanned =>
          LET job == ScannedJob
          IN  /\ SameAsRecorded(job) =>
                    /\ statuses' = statuses
                    /\ target_statuses' = target_statuses
              /\ Count(out', UnchangedLine(job))
                   = Indicator(/\ SameAsRecorded(job)
                               /\ Target(job)
                               /\ job.status # "canceled")
              /\ Count(out', ChangedLine(job))
                   = Indicator(~SameAsRecorded(job) /\ job.status # "canceled")
              /\ IF Target(job)
                 THEN target_statuses'[job.id] = job.status
                 ELSE statuses'[job.id] = job.status]_vars

\* a target job polled twice with the same status
C8_Witness ==
    /\ pc = "scan"
    /\ polls >= 2
    /\ \E k \in 1..Len(jobs) :
         /\ k = Len(jobs)
         /\ Target(jobs[k])
         /\ out = << UnchangedLine(jobs[k]) >>

----------------------------------------------------------------------------
(* Exit code *)

\* C9: a process that ends through sys.exit(ret) exits 1 after a failure
\* result and 0 after a success result; after a hand-off it has run the log
\* streamer until the job was seen success or failed and exits 0 in both
\* cases; without a hand-off the streamer has not run.
C9_ExitCode ==
    pc = "exited" =>
        /\ (target_job_id = None /\ ret = 1) => exit_code = 1
        /\ (target_job_id = None /\ ret = 0) => exit_code = 0
        /\ target_job_id # None =>
              /\ log_status \in {"success", "failed"}
              /\ exit_code = 0
        /\ target_job_id = None =>
              /\ ret \in {0, 1}
              /\ log_status = "created"
              /\ printed_lines = 0

C9_Witness ==
    /\ pc = "exited"
    /\ target_job_id # None
    /\ log_status = "failed"
    /\ exit_code = 0

----------------------------------------------------------------------------
(* The created, running, success scenario *)

\* C10: with one target job reported created by the first poll and running
\* by the second, the first evaluation does not return and goes back to
\* polling, the second evaluation returns the hand-off for that job, and the
\* job list is never polled a third time.
C10_Scenario ==
    /\ polls <= 2
    /\ (polls = 1 /\ pc \notin {"scan", "evaluate", "interrupted"})
          => (pc = "poll" /\ target_job_id = None /\ ret = None)
    /\ (polls = 2 /\ pc \notin {"scan", "evaluate", "interrupted"})
          => /\ Done
             /\ Targets(target_job) = {target_job_id}
             /\ ret = None
    /\ Done => polls = 2

C10_Witness ==
    /\ polls = 2
    /\ pc = "exited"
    /\ log_status = "success"
    /\ Targets(target_job) = {target_job_id}
    /\ target_statuses[target_job_id] = "running"

----------------------------------------------------------------------------
(* Failing requests *)

\* a cancel request of this iteration ended in an exception
SomeCancelRaised ==
    \E id \in DOMAIN exe.futures : exe.futures[id] = "exception"

\* C11: a remote request of the loop that raises (the job-list poll, an
\* enable, a retry or a cancel) ends the process; the loop never carries on
\* to the evaluation step or to another poll after one.
C11_Propagates ==
    (SomeCancelRaised \/ \E i \in 1..Len(out) : out[i].line = "traceback")
        => (pc = "raised" /\ exit_code = 1)

----------------------------------------------------------------------------
(* The cancel pool *)

\* C12: at most 6 cancel requests are in flight at any instant; when the
\* evaluation step starts every cancel request of the iteration has been
\* sent and has finished, successfully or not, and none is queued or in
\* flight outside cancel_jobs; the steps of cancel_jobs leave the status
\* histories and the stress counters alone.
C12_Pool ==
    /\ [](/\ Cardinality(exe.running) <= 6
          /\ pc # "cancel_jobs" =>
                (exe.running = {} /\ exe.work_queue = <<>>)
          /\ pc = "evaluate" =>
                /\ DOMAIN exe.futures = JobIdsOf(to_cancel)
                /\ \A i \in 1..Len(to_cancel) :
                      Count(requests, CancelRequest(to_cancel[i])) = 1)
    /\ [][pc = "cancel_jobs" =>
             UNCHANGED <<statuses, target_statuses, stress_succ,
                         stress_fail>>]_vars

\* six requests in flight and a seventh job still queued
C12_Witness ==
    /\ pc = "cancel_jobs"
    /\ Cardinality(exe.running) = 6
    /\ exe.work_queue # <<>>

----------------------------------------------------------------------------
(* Order of the requests, histories *)

\* C13: in the requests of one iteration no cancel request comes before an
\* enable or a retry request, and a cancel request exists only once the
\* whole polled list has been scanned.
C13_CancelLast ==
    /\ \A i, j \in 1..Len(requests) :
         (requests[i].op = "cancel" /\ requests[j].op \in {"play", "retry"})
             => j < i
    /\ (\E i \in 1..Len(requests) : requests[i].op = "cancel")
          => (pc # "scan" /\ Len(jobs) = njobs)

\* an enable and a cancel in the same iteration
C13_Witness ==
    /\ pc = "evaluate"
    /\ \E i, j \in 1..Len(requests) :
         requests[i].op = "play" /\ requests[j].op = "cancel"

\* C14: every job taken from the current poll is recorded with its polled
\* status in the history it belongs to (target_statuses for a job matching
\* the pattern, statuses for any other); no job id is in both histories; no
\* step of the running process removes a history entry.
C14_Histories ==
    /\ [](/\ \A k \in 1..Len(jobs) :
               /\ jobs[k].id \in DOMAIN HistoryOf(jobs[k])
               /\ HistoryOf(jobs[k])[jobs[k].id] = jobs[k].status
          /\ (DOMAIN statuses) \cap (DOMAIN target_statuses) = {})
    /\ [][pc' \notin {"interrupted", "raised"} =>
             /\ (DOMAIN statuses) \subseteq (DOMAIN statuses')
             /\ (DOMAIN target_statuses) \subseteq (DOMAIN target_statuses')]_vars

\* a second poll has overwritten an entry of each history
C14_Witness ==
    /\ pc = "evaluate"
    /\ polls >= 2
    /\ Len(jobs) = 2
    /\ \E a \in DOMAIN statuses, b \in DOMAIN target_statuses :
         statuses[a] = "success" /\ target_statuses[b] = "pending"

----------------------------------------------------------------------------
(* The log streamer *)

\* the lines of a trace of n lines
LogLines(n) == [i \in 1..n |-> << (IF i % 2 = 1 THEN "a" ELSE "b") >>]

\* C15: print_log returns in the fetch in which the job is seen success or
\* failed and fetches again on every other status; each fetch prints the
\* lines beyond the printed count, so that with a trace that only grows by
\* whole lines the lines printed so far are the lines of the last fetched
\* trace, each once and in order.
C15_LogStreamer ==
    /\ [](\A n \in 0..MaxLogLines :
             trace = LogText(n) =>
                 (console = LogLines(n) /\ printed_lines = n))
    /\ [][(pc = "print_log" /\ pc' \notin {"interrupted", "raised"}) =>
             /\ log_status' \in {"success", "failed"} => pc' = "sys_exit"
             /\ log_status' \notin {"success", "failed"} => pc' = "print_log"
             /\ console' = console
                  \o SubSeq(LogLines(MaxLogLines), Len(console) + 1,
                            printed_lines')]_vars

\* the first line was printed by an earlier fetch, the second by the last
C15_Witness ==
    /\ pc = "sys_exit"
    /\ log_status = "failed"
    /\ console = LogLines(2)
    /\ out = << [line |-> "log", text |-> <<"b">>], [line |-> "finished"] >>

----------------------------------------------------------------------------
(* Dependencies *)

Dependency(job) == ~Target(job) /\ job.name \in dependencies

\* C16: in every poll a job that is not a target and is named in the
\* dependency set gets exactly one enable request when its polled status is
\* manual, whatever --force-manual and --stress are, and no request of any
\* kind when its status is anything else.
C16_DependencyEnable ==
    \A k \in 1..Len(jobs) :
        Dependency(jobs[k]) =>
            /\ Count(requests, [op |-> "play", id |-> jobs[k].id])
                 = Indicator(jobs[k].status = "manual")
            /\ Count(requests, [op |-> "retry", id |-> jobs[k].id]) = 0
            /\ Count(requests, [op |-> "cancel", id |-> jobs[k].id]) = 0

C16_Witness ==
    /\ ~force_manual
    /\ stress
    /\ \E k \in 1..Len(jobs) :
         /\ Dependency(jobs[k])
         /\ jobs[k].status = "manual"
         /\ Count(requests, [op |-> "play", id |-> jobs[k].id]) = 1

\* C17: no job matching the target pattern and no job named in the
\* dependency set is ever put in to_cancel or sent a cancel request, whatever
\* its status; without a target pattern to_cancel stays empty and no cancel
\* request is issued.
C17_NoCancel ==
    /\ \A k \in 1..Len(jobs) :
         (Target(jobs[k]) \/ jobs[k].name \in dependencies) =>
             /\ Count(requests, [op |-> "cancel", id |-> jobs[k].id]) = 0
             /\ Count(to_cancel, jobs[k]) = 0
    /\ ~TruthyStr(target_job) =>
         /\ to_cancel = <<>>
         /\ \A i \in 1..Len(requests) : requests[i].op # "cancel"

\* the cancel step has passed over a running dependency
C17_Witness ==
    /\ pc = "evaluate"
    /\ \E k \in 1..Len(jobs) :
         /\ Dependency(jobs[k])
         /\ jobs[k].status = "running"
    /\ requests = <<>>

----------------------------------------------------------------------------
(* Evaluations the rules do not name *)

\* C18: without --stress an evaluation that finds the target history empty
\* returns no job id and exit code 0; a run without a target pattern polls
\* once, issues no request and, when it ends through sys.exit(ret), exits 0.
C18_EmptyHistory ==
    /\ (~stress /\ Evaluated /\ target_statuses = <<>>)
          => (Done /\ target_job_id = None /\ ret = 0)
    /\ (~stress /\ ~TruthyStr(target_job))
          => /\ polls <= 1
             /\ requests = <<>>
             /\ pc = "exited" => (polls = 1 /\ exit_code = 0)

\* a run without --target has listed every job and exited 0
C18_Witness ==
    /\ ~stress
    /\ target_job = NoTarget
    /\ pc = "exited"
    /\ exit_code = 0
    /\ polls = 1
    /\ Len(jobs) = NumJobs

\* C19: without --stress and with --force-manual, the iteration that issues
\* an enable request for a manual target job does not return the success
\* result.
C19_KeepsPolling ==
    (~stress /\ force_manual /\ pc = "returned" /\ ret = 0)
        => ~\E k \in 1..Len(jobs) :
                /\ Target(jobs[k])
                /\ Count(requests, [op |-> "play", id |-> jobs[k].id]) > 0

\* while True with nothing to end it: the poll count stops at MaxPolls, the
\* polls go on
PollLive ==
    /\ pc = "poll"
    /\ polls' = IF polls < MaxPolls THEN polls + 1 ELSE MaxPolls
    /\ \E n \in njobs..NumJobs : njobs' = n
    /\ jobs' = <<>>
    /\ to_cancel' = <<>>
    /\ requests' = <<>>
    /\ out' = <<>>
    /\ pc' = "scan"
    /\ UNCHANGED <<args, statuses, target_statuses, stress_succ, stress_fail,
                   result, streamer, exe, exit_code>>

InitLive ==
    /\ Init
    /\ ~stress
    /\ TruthyStr(target_job)

\* the loop alone, with polls that always succeed
NextLive ==
    \/ PollLive
    \/ ScanJob
    \/ CancelJobs
    \/ Evaluate

\* the control thread always takes its next step: the sleep of pretty_wait
\* ends and every request returns
SpecLive == InitLive /\ [][NextLive]_vars /\ WF_vars(NextLive)

\* C20: without --stress, if from some point on at least one target job is
\* recorded and every recorded target status is one of the final statuses
\* success, failed, canceled, skipped, then monitor_pipeline eventually
\* returns a result.
C20_Terminates ==
    <>[](/\ target_statuses # <<>>
         /\ \A id \in DOMAIN target_statuses :
              target_statuses[id]
                  \in {"success", "failed", "canceled", "skipped"})
        => <>Done

====
